---- MODULE Spec2Model ----
(***************************************************************************)
(* Worker / main-thread split rendering of the SvelteThree demo.           *)
(*                                                                         *)
(*   main thread : WorkerRendererService (init, resize, cleanup and the    *)
(*                 worker.onmessage handler) and the App component that   *)
(*                 drives it (onMount, initRenderer).                      *)
(*   worker      : ThreeWorkerRenderer and its message listener.  The      *)
(*                 sources hold two worker scripts: the one that emits a   *)
(*                 createMesh command ("command") and the one headed       *)
(*                 "simplified version" that streams rotation snapshots    *)
(*                 ("simplified").  Which of them is served as             *)
(*                 renderWorker.ts is chosen in Init.                      *)
(*                                                                         *)
(* Numbers: a rotation of n stands for n * 0.01 rad; an aspect ratio is    *)
(* kept as the pair <<width, height>>; Undef is JavaScript's undefined.    *)
(***************************************************************************)
EXTENDS Integers, Sequences, FiniteSets, TLC

\* ------------------------------------------------------------- bounds
\* init() calls that get past the support check (one renderer/worker each)
MaxInits == 2
\* messages in flight per direction and worker
MaxQueue == 2
\* frames a simplified worker (or the fallback loop) advances
MaxRot == 2
\* frame loops one worker runs at a time (one per 'init' it handled)
MaxLoops == 2
\* the last reading of performance.now(), in ms, the command worker's loop sees
MaxClock == 6
\* buttons of the benchmark (buttonCount, 10000 in the source)
ButtonCount == 3
\* clicks made on one button
MaxClicks == 3

\* ------------------------------------------------------------- values
\* null for a reference kept as an id (worker, renderer, scene, timer)
Null == 0
\* null for a reference kept as a record (canvas, camera, mesh)
NoObject == [null |-> TRUE]
Undef == -1
DefaultWidth == 800
DefaultHeight == 600
CameraZ == 5
\* rotationSpeed, rad/s
RotationSpeed == 1

\* `a || b` on numbers: 0 and undefined are falsy
OrElse(a, b) == IF a = 0 \/ a = Undef THEN b ELSE a

\* canvas.clientWidth / clientHeight the host may report
Canvases == { [clientWidth |-> 0, clientHeight |-> 0],
              [clientWidth |-> 400, clientHeight |-> 300] }
\* arguments of resize(width, height)
Viewports == { <<0, 0>>, <<400, 300>> }

WorkerIds == 1..MaxInits

Vec(a, b, c) == [x |-> a, y |-> b, z |-> c]

\* new THREE.Mesh(...): rotation 0, position 0, scale 1
NewMesh == [rotation |-> Vec(0, 0, 0), position |-> Vec(0, 0, 0), scale |-> Vec(1, 1, 1)]

\* the steps of init() that can throw on a real host
ThrowPoints == {"none", "renderer", "worker"}

VARIABLES
    version,      \* which worker script is deployed: "command" | "simplified"
    appVersion,   \* which App.svelte is deployed: "current" | "earlier"
    isSupported,  \* WorkerRendererService.isSupported
    worker,       \* this.worker: Null or the id of a Worker
    canvas,       \* this.canvas: NoObject or a canvas
    renderer,     \* this.renderer: Null or the id of a WebGLRenderer
    scene,        \* this.scene: Null or the id of a Scene
    camera,       \* this.camera: NoObject or [aspect, z]
    cube,         \* this.cube: NoObject or a mesh
    animationId,  \* this.animationId (never assigned by the service)
    inits,        \* init() calls that got past the support check
    rend,         \* every WebGLRenderer ever constructed, with the cube built next to
                  \* it: id -> [made, size, disposed, geometry, material]
    wk,           \* every Worker ever constructed: id -> worker-side state and channels
                  \* (cleanups: how many of its last steps, up to 2, handled 'cleanup';
                  \* dropped: its last step took a message that matched no case;
                  \* clock: performance.now() in its scope, startTime: what it read
                  \* when startAnimation ran)
    last,         \* the last main-thread operation and what it did (again: it was
                  \* cleanup() called right after cleanup(); frame: the rotation of
                  \* the mesh in the picture renderer.render drew, if it drew)
    app           \* the App component

svcVars == <<worker, canvas, renderer, scene, camera, cube, animationId>>
vars == <<version, appVersion, isSupported, worker, canvas, renderer, scene, camera,
          cube, animationId, inits, rend, wk, last, app>>

\* ------------------------------------------------------------- worker side
NoWorker == [status |-> "none", inbox |-> <<>>, outbox |-> <<>>, inited |-> FALSE,
             loops |-> 0, animationId |-> Null, rx |-> 0, ry |-> 0,
             aspect |-> <<0, 0>>, terms |-> 0, fault |-> FALSE,
             cleanups |-> 0, dropped |-> FALSE,
             clock |-> 0, lastTime |-> 0, startTime |-> 0]

\* what one initMainThreadThreeJS() call allocates: the WebGLRenderer (made, size,
\* disposed: dispose() calls) and the cube's BoxGeometry and MeshBasicMaterial
\* ("none" | "live" | "disposed")
NoRenderer == [made |-> FALSE, size |-> <<0, 0>>, disposed |-> 0,
               geometry |-> "none", material |-> "none"]

\* cubeMeshCommand of the command worker
CubeMeshCommand ==
    [id |-> "cube-1",
     geometry |-> [type |-> "box", width |-> 1, height |-> 1, depth |-> 1],
     material |-> [type |-> "basic", color |-> "ff0000"],
     initialTransform |-> [position |-> Vec(0, 0, 0), rotation |-> Vec(0, 0, 0),
                           scale |-> Vec(1, 1, 1)]]

CreateMeshMsg(cmd) == [type |-> "createMesh", data |-> cmd]
\* a message without payload, an operation without argument
NoData == [none |-> TRUE]
InitCompleteMsg == [type |-> "initComplete", data |-> NoData]

\* a renderData message; a missing vector is has* = FALSE, a missing axis is Undef
Snapshot(id, hasRot, rot, hasPos, pos) ==
    [type |-> "renderData",
     data |-> [meshId |-> id, hasRotation |-> hasRot, rotation |-> rot,
               hasPosition |-> hasPos, position |-> pos]]

NoVec == Vec(Undef, Undef, Undef)

\* the snapshot the simplified worker posts each frame: { rotation: { x, y } }
SimplifiedSnapshot(rx, ry) == Snapshot("", TRUE, Vec(rx, ry, Undef), FALSE, NoVec)

\* ThreeWorkerRenderer.init of the command worker: createMesh, then initComplete;
\* the calls of updateRenderData and startAnimation are commented out
CommandInit(w, m) ==
    [w EXCEPT !.outbox = w.outbox \o <<CreateMeshMsg(CubeMeshCommand), InitCompleteMsg>>]

\* ThreeWorkerRenderer.init of the simplified worker: camera, cube, startAnimation()
\* (whose first animate() runs at once and posts a snapshot), then initComplete
SimplifiedInit(w, m) ==
    [w EXCEPT !.inited = TRUE,
              !.aspect = <<m.width, m.height>>,
              !.rx = 1, !.ry = 1,
              !.loops = w.loops + 1,
              !.animationId = 1,
              !.outbox = w.outbox \o <<SimplifiedSnapshot(1, 1), InitCompleteMsg>>]

\* ThreeWorkerRenderer.resize: a no-op in the command worker; the simplified one
\* sets camera.aspect, and raises a TypeError when the camera is not there yet
\* (fault: the last message the listener took raised)
WorkerResize(w, m) ==
    IF version = "command" THEN w
    ELSE IF w.inited THEN [w EXCEPT !.aspect = <<m.width, m.height>>]
    ELSE [w EXCEPT !.fault = TRUE]

\* ThreeWorkerRenderer.cleanup that forgets the frame id and cancels nothing
WorkerCleanupKeepsTimer(w) ==
    IF w.animationId # Null
    THEN [w EXCEPT !.animationId = Null]
    ELSE w

\* ThreeWorkerRenderer.cleanup: cancels the frame animationId names
WorkerCleanup(w) ==
    IF w.animationId # Null
    THEN [w EXCEPT !.animationId = Null, !.loops = w.loops - 1]
    ELSE w

\* the message types the worker's listener has a case for
WorkerKinds == {"init", "resize", "cleanup"}

\* a listener whose switch ends in `default:` on the 'cleanup' branch
WorkerListenerFallsThrough(w, m) ==
    CASE m.type = "init" -> IF version = "command" THEN CommandInit(w, m)
                            ELSE SimplifiedInit(w, m)
      [] m.type = "resize" -> WorkerResize(w, m)
      [] OTHER -> WorkerCleanup(w)

\* the worker's message listener
WorkerListener(w, m) ==
    CASE m.type = "init" -> IF version = "command" THEN CommandInit(w, m)
                            ELSE SimplifiedInit(w, m)
      [] m.type = "resize" -> WorkerResize(w, m)
      [] m.type = "cleanup" -> WorkerCleanup(w)
      [] OTHER -> w

\* how many messages handling m may post
Posts(m) == IF m.type = "init" THEN 2 ELSE 0

\* 'cleanup' messages handled in a row, m included (2 stands for two or more)
InRow(w, m) == IF m.type # "cleanup" THEN 0 ELSE IF w.cleanups = 0 THEN 1 ELSE 2

\* the worker thread takes the next message of its queue
WorkerOnMessage(i) ==
    /\ wk[i].status = "running"
    /\ wk[i].inbox # <<>>
    /\ Len(wk[i].outbox) + Posts(Head(wk[i].inbox)) <= MaxQueue
    /\ Head(wk[i].inbox).type = "init" => wk[i].loops < MaxLoops
    /\ wk' = [wk EXCEPT ![i] =
                 WorkerListener([wk[i] EXCEPT !.inbox = Tail(wk[i].inbox),
                                              !.fault = FALSE,
                                              !.cleanups = InRow(wk[i], Head(wk[i].inbox)),
                                              !.dropped = Head(wk[i].inbox).type \notin WorkerKinds],
                                Head(wk[i].inbox))]
    /\ UNCHANGED <<version, appVersion, isSupported, svcVars, inits, rend, last, app>>

\* animate() of the simplified worker: one pending frame runs, asks for the next
\* one, rotates the cube by 0.01 and posts the snapshot
Animate(w) ==
    [w EXCEPT !.animationId = 1,
              !.cleanups = 0, !.dropped = FALSE,
              !.rx = w.rx + 1, !.ry = w.ry + 1,
              !.outbox = Append(w.outbox, SimplifiedSnapshot(w.rx + 1, w.ry + 1))]

\* a frame that writes the rotation into the main thread's mesh itself
WorkerFrameRotatesCube(i) ==
    /\ wk[i].status = "running"
    /\ wk[i].loops > 0
    /\ wk[i].rx < MaxRot
    /\ Len(wk[i].outbox) < MaxQueue
    /\ wk' = [wk EXCEPT ![i] = Animate(wk[i])]
    /\ cube' = IF cube = NoObject THEN cube
               ELSE [cube EXCEPT !.rotation.x = wk[i].rx + 1, !.rotation.y = wk[i].ry + 1]
    /\ UNCHANGED <<version, appVersion, isSupported, worker, canvas, renderer, scene,
                   camera, animationId, inits, rend, last, app>>

WorkerFrame(i) ==
    /\ wk[i].status = "running"
    /\ wk[i].loops > 0
    /\ wk[i].rx < MaxRot
    /\ Len(wk[i].outbox) < MaxQueue
    /\ wk' = [wk EXCEPT ![i] = Animate(wk[i])]
    /\ UNCHANGED <<version, appVersion, isSupported, svcVars, inits, rend, last, app>>

\* ------------------------------------------------------------- main thread
Op(name, arg, result, draws) ==
    [op |-> name, arg |-> arg, result |-> result, draws |-> draws,
     again |-> (name = "cleanup" /\ last.op = "cleanup"), frame |-> NoObject]

InitMsg(c) == [type |-> "init",
               width |-> OrElse(c.clientWidth, DefaultWidth),
               height |-> OrElse(c.clientHeight, DefaultHeight)]
ResizeMsg(w, h) == [type |-> "resize",
                    width |-> OrElse(w, DefaultWidth),
                    height |-> OrElse(h, DefaultHeight)]
CleanupMsg == [type |-> "cleanup", width |-> 0, height |-> 0]

\* the camera initMainThreadThreeJS builds
NewCamera(c) == [aspect |-> <<OrElse(c.clientWidth, DefaultWidth),
                              OrElse(c.clientHeight, DefaultHeight)>>,
                 z |-> CameraZ]

\* init(canvas) on a host with Worker: the try block, with the step that throws
InitSupported(c, t) ==
    LET k == inits + 1 IN
    /\ inits < MaxInits
    /\ inits' = k
    /\ canvas' = c
    \* initMainThreadThreeJS
    /\ scene' = k
    /\ camera' = NewCamera(c)
    /\ IF t = "renderer"
       THEN UNCHANGED <<renderer, rend, cube>>
       ELSE /\ renderer' = k
            /\ rend' = [rend EXCEPT ![k] = [made |-> TRUE,
                                            size |-> NewCamera(c).aspect,
                                            disposed |-> 0,
                                            geometry |-> "live",
                                            material |-> "live"]]
            /\ cube' = NewMesh
    \* new Worker, setupMessageHandlers, postMessage(init)
    /\ IF t = "none"
       THEN /\ worker' = k
            /\ wk' = [wk EXCEPT ![k] = [NoWorker EXCEPT !.status = "running",
                                                        !.inbox = <<InitMsg(c)>>]]
       ELSE UNCHANGED <<worker, wk>>
    /\ last' = Op("init", [canvas |-> c, throws |-> t], t = "none", 0)
    /\ UNCHANGED animationId

\* init(canvas) without the support check
InitUnchecked(c, t) == InitSupported(c, t)

\* init(canvas)
Init_(c, t) ==
    IF ~isSupported
    THEN /\ last' = Op("init", [canvas |-> c, throws |-> "none"], FALSE, 0)
         /\ UNCHANGED <<svcVars, inits, rend, wk>>
    ELSE InitSupported(c, t)

\* resize(width, height)
Resize_(w, h) ==
    /\ IF worker # Null
       THEN /\ Len(wk[worker].inbox) < MaxQueue
            /\ wk' = [wk EXCEPT ![worker].inbox = Append(@, ResizeMsg(w, h))]
       ELSE UNCHANGED wk
    /\ last' = Op("resize", ResizeMsg(w, h), TRUE, 0)
    /\ UNCHANGED <<svcVars, inits, rend>>

\* cleanup() that terminates the worker and keeps the reference
CleanupWorkerKeepsRef(drop) ==
    IF worker # Null
    THEN /\ wk' = [wk EXCEPT ![worker] =
                      [NoWorker EXCEPT !.status = "terminated",
                                       !.terms = wk[worker].terms + 1,
                                       !.cleanups = wk[worker].cleanups,
                                       !.outbox = IF drop THEN <<>>
                                                  ELSE wk[worker].outbox]]
         /\ UNCHANGED worker
    ELSE UNCHANGED <<worker, wk>>

\* cleanup(), lines 156-160: post 'cleanup', terminate, drop the reference.
\* terminate() discards the worker's queued tasks and its global scope; messages
\* it had already posted may or may not still be delivered (drop).
CleanupWorker(drop) ==
    IF worker # Null
    THEN /\ wk' = [wk EXCEPT ![worker] =
                      [NoWorker EXCEPT !.status = "terminated",
                                       !.terms = wk[worker].terms + 1,
                                       !.cleanups = wk[worker].cleanups,
                                       !.outbox = IF drop THEN <<>>
                                                  ELSE wk[worker].outbox]]
         /\ worker' = Null
    ELSE UNCHANGED <<worker, wk>>

\* cleanup(), lines 162-165
CleanupAnimation ==
    IF animationId # Null THEN animationId' = Null ELSE UNCHANGED animationId

\* cleanup(), lines 167-170
CleanupRenderer ==
    IF renderer # Null
    THEN /\ rend' = [rend EXCEPT ![renderer].disposed = @ + 1]
         /\ renderer' = Null
    ELSE UNCHANGED <<renderer, rend>>

\* cleanup() that stops the worker and releases nothing else
CleanupStopsWorkerOnly(drop) ==
    /\ CleanupWorker(drop)
    /\ last' = Op("cleanup", NoData, TRUE, 0)
    /\ UNCHANGED <<canvas, renderer, scene, camera, cube, animationId, inits, rend>>

\* cleanup()
Cleanup_(drop) ==
    /\ CleanupWorker(drop)
    /\ CleanupAnimation
    /\ CleanupRenderer
    /\ canvas' = NoObject
    /\ scene' = Null
    /\ camera' = NoObject
    /\ cube' = NoObject
    /\ last' = Op("cleanup", NoData, TRUE, 0)
    /\ UNCHANGED inits

\* updateMainThreadRender(data): TRUE when it draws
Renders == cube # NoObject /\ renderer # Null /\ scene # Null /\ camera # NoObject

UpdateMainThreadRender(data) ==
    IF ~Renders THEN cube
    ELSE IF data.hasRotation
    THEN [cube EXCEPT !.rotation.x = data.rotation.x, !.rotation.y = data.rotation.y]
    ELSE cube

\* the service holds a worker: init() succeeded and cleanup() has not run since
Ready == worker # Null

\* worker.onmessage with updateMainThreadRender drawing before it rotates the mesh
OnMessageDrawsFirst(m) ==
    /\ cube' = IF m.type = "renderData" THEN UpdateMainThreadRender(m.data) ELSE cube
    /\ last' = [Op("onmessage", m, TRUE, IF m.type = "renderData" /\ Renders THEN 1 ELSE 0)
                  EXCEPT !.frame = IF m.type = "renderData" /\ Renders
                                   THEN cube.rotation ELSE NoObject]
    /\ UNCHANGED <<worker, canvas, renderer, scene, camera, animationId, inits, rend>>

\* worker.onmessage: the switch on the message type; updateMainThreadRender
\* rotates the mesh and then calls renderer.render once
OnMessage(m) ==
    /\ cube' = IF m.type = "renderData" THEN UpdateMainThreadRender(m.data) ELSE cube
    /\ last' = [Op("onmessage", m, TRUE, IF m.type = "renderData" /\ Renders THEN 1 ELSE 0)
                  EXCEPT !.frame = IF m.type = "renderData" /\ Renders
                                   THEN UpdateMainThreadRender(m.data).rotation
                                   ELSE NoObject]
    /\ UNCHANGED <<worker, canvas, renderer, scene, camera, animationId, inits, rend>>

\* the main thread takes the next message worker i posted
Deliver(i) ==
    /\ wk[i].status # "none"
    /\ wk[i].outbox # <<>>
    /\ OnMessage(Head(wk[i].outbox))
    /\ wk' = [wk EXCEPT ![i].outbox = Tail(@)]

\* ------------------------------------------------------------- the service, any caller
\* a ButtonPerformanceTest component before its onMount: no button states yet, the
\* total rendered over the empty array (made: clicks made on each button so far;
\* shownTotal: the text of the total in the DOM)
NoBench == [mounted |-> FALSE, buttons |-> <<>>, made |-> <<>>, shownTotal |-> 0,
            measured |-> FALSE]

NewApp == [pc |-> "idle", renderMode |-> "main", view |-> "three", alive |-> TRUE,
           listener |-> FALSE, attached |-> FALSE, fb |-> NoObject, bench |-> NoBench]

Init ==
    /\ version \in {"command", "simplified"}
    /\ appVersion = "current"
    /\ isSupported \in BOOLEAN
    /\ worker = Null /\ canvas = NoObject /\ renderer = Null /\ scene = Null
    /\ camera = NoObject /\ cube = NoObject /\ animationId = Null
    /\ inits = 0
    /\ rend = [k \in WorkerIds |-> NoRenderer]
    /\ wk = [k \in WorkerIds |-> NoWorker]
    /\ last = [op |-> "new", arg |-> NoData, result |-> TRUE, draws |-> 0, again |-> FALSE,
            frame |-> NoObject]
    /\ app = NewApp

fixed == <<version, appVersion, isSupported>>

init == \E c \in Canvases, t \in ThrowPoints : Init_(c, t) /\ UNCHANGED <<fixed, app>>
resize == \E v \in Viewports : Resize_(v[1], v[2]) /\ UNCHANGED <<fixed, app>>
cleanup == \E drop \in BOOLEAN : Cleanup_(drop) /\ UNCHANGED <<fixed, app>>
onmessage == \E i \in WorkerIds : Deliver(i) /\ UNCHANGED <<fixed, app>>
workerOnMessage == \E i \in WorkerIds : WorkerOnMessage(i)
workerFrame == \E i \in WorkerIds : WorkerFrame(i)

Next == init \/ resize \/ cleanup \/ onmessage \/ workerOnMessage \/ workerFrame

Spec == Init /\ [][Next]_vars

\* ------------------------------------------------------------- the handlers, any message
\* Messages the channel may carry to the main thread: the kinds of the protocol
\* with ids, kinds and partial vectors the workers above never send.
MeshCommands ==
    { CubeMeshCommand,
      [CubeMeshCommand EXCEPT !.id = "ball-2", !.geometry.type = "sphere",
                              !.material.type = "lambert"],
      [CubeMeshCommand EXCEPT !.id = "ring-3", !.geometry.type = "torus"] }

Snapshots ==
    { Snapshot("cube-1", TRUE, Vec(1, 2, Undef), FALSE, NoVec),
      Snapshot("ghost", TRUE, Vec(1, 2, Undef), FALSE, NoVec),
      Snapshot("cube-1", TRUE, Vec(2, Undef, Undef), FALSE, NoVec),
      Snapshot("cube-1", FALSE, NoVec, TRUE, Vec(1, 1, 1)),
      Snapshot("", TRUE, Vec(1, 1, 1), TRUE, Vec(1, Undef, Undef)) }

MainMessages ==
    {CreateMeshMsg(cmd) : cmd \in MeshCommands} \cup Snapshots
    \cup {InitCompleteMsg, [type |-> "error", data |-> NoData], [type |-> "bogus", data |-> NoData]}

WorkerMessages ==
    {InitMsg(c) : c \in Canvases} \cup {ResizeMsg(v[1], v[2]) : v \in Viewports}
    \cup {CleanupMsg, [type |-> "bogus", width |-> 0, height |-> 0]}

\* some message reaches the main thread's handler of worker i (one at a time,
\* when that worker's channel is idle: every sequence of handler calls is still
\* reached)
postToMain ==
    \E i \in WorkerIds, m \in MainMessages :
        /\ wk[i].status # "none"
        /\ wk[i].outbox = <<>>
        /\ wk[i].inbox = <<>>
        /\ wk' = [wk EXCEPT ![i].outbox = Append(@, m)]
        /\ UNCHANGED <<fixed, svcVars, inits, rend, last, app>>

\* some message reaches the listener of worker i
postToWorker ==
    \E i \in WorkerIds, m \in WorkerMessages :
        /\ wk[i].status = "running"
        /\ wk[i].inbox = <<>>
        /\ wk[i].outbox = <<>>
        /\ wk' = [wk EXCEPT ![i].inbox = Append(@, m)]
        /\ UNCHANGED <<fixed, svcVars, inits, rend, last, app>>

\* one service instance, initialised at most once, its channel carrying anything
initOnce == inits = 0 /\ init

HandlerNext ==
    initOnce \/ cleanup \/ onmessage \/ workerOnMessage \/ workerFrame
    \/ postToMain \/ postToWorker

HandlerSpec == Init /\ [][HandlerNext]_vars

\* ------------------------------------------------------------- the App component
\* canvasContainer is bound while the component lives and shows the three view
Container == app.alive /\ app.view = "three"

\* onMount: schedules initRenderer 100 ms later; what the timer callback returns
\* is dropped, and onMount itself returns nothing
Mount ==
    /\ app.pc = "idle"
    /\ app' = [app EXCEPT !.pc = "mounted"]
    /\ UNCHANGED <<fixed, svcVars, inits, rend, wk, last>>

\* the view switcher
SwitchView ==
    /\ app.alive
    /\ app.pc # "idle"
    /\ app' = [app EXCEPT !.view = IF @ = "three" THEN "buttons" ELSE "three"]
    /\ UNCHANGED <<fixed, svcVars, inits, rend, wk, last>>

\* the component is destroyed: no cleanup function was registered
Destroy ==
    /\ app.alive
    /\ app.pc # "idle"
    /\ app' = [app EXCEPT !.alive = FALSE]
    /\ UNCHANGED <<fixed, svcVars, inits, rend, wk, last>>

\* initMainThreadRenderer of the earlier App.svelte: an 800 x 600 scene with one
\* cube, and animate() called once at once (rot counts the frames drawn)
InitMainThreadRenderer == [rot |-> 1, aspect |-> <<DefaultWidth, DefaultHeight>>]

\* the else branch of initRenderer
Fallback ==
    IF appVersion = "earlier"
    THEN [app EXCEPT !.pc = "fallback", !.renderMode = "main", !.attached = TRUE,
                     !.listener = TRUE, !.fb = InitMainThreadRenderer]
    ELSE [app EXCEPT !.pc = "fallback", !.renderMode = "main", !.attached = TRUE]

\* initRenderer, run by the timer
InitRenderer ==
    /\ app.pc = "mounted"
    /\ IF ~Container
       THEN /\ app' = [app EXCEPT !.pc = "noContainer"]
            /\ UNCHANGED <<svcVars, inits, rend, wk, last>>
       ELSE \E c \in Canvases, t \in ThrowPoints :
               /\ Init_(c, t)
               /\ app' = IF last'.result
                          THEN [app EXCEPT !.pc = "worker", !.renderMode = "worker",
                                           !.attached = TRUE, !.listener = TRUE]
                          ELSE Fallback
    /\ UNCHANGED fixed

\* a window resize event reaches the listener initRenderer added
HandleResize ==
    /\ app.listener
    /\ Container
    /\ \E v \in Viewports :
          IF app.pc = "worker"
          THEN Resize_(v[1], v[2]) /\ UNCHANGED app
          ELSE /\ app' = [app EXCEPT !.fb.aspect = <<OrElse(v[1], DefaultWidth),
                                                      OrElse(v[2], DefaultHeight)>>]
               /\ last' = Op("resize", ResizeMsg(v[1], v[2]), TRUE, 0)
               /\ UNCHANGED <<svcVars, inits, rend, wk>>
    /\ UNCHANGED fixed

\* animate() of the earlier App.svelte's fallback: rotate by 0.01 and render
FallbackFrame ==
    /\ app.fb # NoObject
    /\ app.fb.rot < MaxRot
    /\ app' = [app EXCEPT !.fb.rot = @ + 1]
    /\ last' = Op("animate", NoData, TRUE, 1)
    /\ UNCHANGED <<fixed, svcVars, inits, rend, wk>>

AppInit ==
    /\ version \in {"command", "simplified"}
    /\ appVersion \in {"current", "earlier"}
    /\ isSupported \in BOOLEAN
    /\ worker = Null /\ canvas = NoObject /\ renderer = Null /\ scene = Null
    /\ camera = NoObject /\ cube = NoObject /\ animationId = Null
    /\ inits = 0
    /\ rend = [k \in WorkerIds |-> NoRenderer]
    /\ wk = [k \in WorkerIds |-> NoWorker]
    /\ last = [op |-> "new", arg |-> NoData, result |-> TRUE, draws |-> 0, again |-> FALSE,
            frame |-> NoObject]
    /\ app = NewApp

AppNext ==
    Mount \/ SwitchView \/ Destroy \/ InitRenderer \/ HandleResize \/ FallbackFrame
    \/ onmessage \/ workerOnMessage \/ workerFrame

AppSpec == AppInit /\ [][AppNext]_vars

\* ------------------------------------------------------------- the command worker's frame loop
\* startAnimation() of the command worker is private and its only call, in init,
\* is commented out; here it is called once on a constructed ThreeWorkerRenderer.
\* Time is in ms and this loop's rotation in 0.001 rad (rotationSpeed * ms / 1000).

\* performance.now() when the worker calls startAnimation
StartTimes == {1, 2}
\* ms that pass between two looks at the clock
Steps == {1, 2}

\* updateRenderData(): meshId 'cube-1' with copies of cubeState.rotation and
\* cubeState.position
CommandSnapshot(rx, ry) == Snapshot("cube-1", TRUE, Vec(rx, ry, 0), TRUE, Vec(0, 0, 0))

\* startAnimation(): lastTime = performance.now(); animate() sets the first timer
StartAnimation(w) ==
    [w EXCEPT !.lastTime = w.clock, !.startTime = w.clock,
              !.animationId = 1, !.loops = w.loops + 1]

\* a timer callback that turns by a fixed step per frame
CommandAnimateByFrame(w) ==
    [w EXCEPT !.lastTime = w.clock,
              !.rx = w.rx + RotationSpeed, !.ry = w.ry + RotationSpeed,
              !.animationId = 1, !.cleanups = 0, !.dropped = FALSE,
              !.outbox = Append(w.outbox, CommandSnapshot(w.rx + RotationSpeed,
                                                          w.ry + RotationSpeed))]

\* the timer callback of animate(): deltaTime from lastTime (0 when lastTime is
\* falsy), rotation.x and .y += rotationSpeed * deltaTime, updateRenderData(),
\* animate() sets the next timer
CommandAnimate(w) ==
    LET deltaTime == IF w.lastTime # 0 THEN w.clock - w.lastTime ELSE 0 IN
    [w EXCEPT !.lastTime = w.clock,
              !.rx = w.rx + RotationSpeed * deltaTime,
              !.ry = w.ry + RotationSpeed * deltaTime,
              !.animationId = 1, !.cleanups = 0, !.dropped = FALSE,
              !.outbox = Append(w.outbox,
                                CommandSnapshot(w.rx + RotationSpeed * deltaTime,
                                                w.ry + RotationSpeed * deltaTime))]

CommandFrame(i) ==
    /\ wk[i].status = "running"
    /\ wk[i].loops > 0
    /\ Len(wk[i].outbox) < MaxQueue
    /\ wk' = [wk EXCEPT ![i] = CommandAnimate(wk[i])]
    /\ UNCHANGED <<fixed, svcVars, inits, rend, last, app>>

startAnimation ==
    \E i \in WorkerIds :
        /\ wk[i].status = "running"
        /\ wk[i].startTime = 0
        /\ wk' = [wk EXCEPT ![i] = StartAnimation(wk[i])]
        /\ UNCHANGED <<fixed, svcVars, inits, rend, last, app>>

\* time passes in the worker
clockAdvance ==
    \E i \in WorkerIds, d \in Steps :
        /\ wk[i].status = "running"
        /\ wk[i].clock + d <= MaxClock
        /\ wk' = [wk EXCEPT ![i].clock = @ + d]
        /\ UNCHANGED <<fixed, svcVars, inits, rend, last, app>>

commandFrame == \E i \in WorkerIds : CommandFrame(i)

\* a command worker whose script has run: the ThreeWorkerRenderer is constructed
FrameInit ==
    /\ version = "command"
    /\ appVersion = "current"
    /\ isSupported = TRUE
    /\ worker = Null /\ canvas = NoObject /\ renderer = Null /\ scene = Null
    /\ camera = NoObject /\ cube = NoObject /\ animationId = Null
    /\ inits = 0
    /\ rend = [k \in WorkerIds |-> NoRenderer]
    /\ \E t \in StartTimes :
          wk = [k \in WorkerIds |->
                  IF k = 1 THEN [NoWorker EXCEPT !.status = "running", !.clock = t]
                  ELSE NoWorker]
    /\ last = [op |-> "new", arg |-> NoData, result |-> TRUE, draws |-> 0, again |-> FALSE,
            frame |-> NoObject]
    /\ app = NewApp

FrameNext == startAnimation \/ clockAdvance \/ commandFrame \/ onmessage

FrameSpec == FrameInit /\ [][FrameNext]_vars

\* ------------------------------------------------------------- the button benchmark
\* ButtonPerformanceTest.svelte.  Svelte re-renders an expression of the template
\* when a variable it reads has been assigned to by name; `buttons` is a const
\* that is only mutated (push, and fields of its elements through a local alias).

RECURSIVE Total(_)
\* buttons.reduce((sum, b) => sum + b.clickCount, 0)
Total(bs) == IF bs = <<>> THEN 0 ELSE Head(bs).clickCount + Total(Tail(bs))

RECURSIVE Sum(_)
Sum(ns) == IF ns = <<>> THEN 0 ELSE Head(ns) + Sum(Tail(ns))

\* the text of the total after an update in which the variables in dirty were
\* invalidated
ShownTotal(b, dirty) == IF "buttons" \in dirty THEN Total(b.buttons) ELSE b.shownTotal

\* onMount: mounted = true, one state per button, updateMemoryInfo()
BenchMount(b) ==
    LET n == [b EXCEPT !.mounted = TRUE,
                       !.buttons = [i \in 1..ButtonCount |->
                                      [id |-> i - 1, clicked |-> FALSE, clickCount |-> 0]],
                       !.made = [i \in 1..ButtonCount |-> 0]]
    IN [n EXCEPT !.shownTotal = ShownTotal(n, {"mounted", "memoryInfo"})]

\* handleClick(id): toggles clicked, counts the click, updateDOMCount()
HandleClick(b, id) ==
    LET n == [b EXCEPT !.buttons[id + 1].clicked = ~@,
                       !.buttons[id + 1].clickCount = @ + 1,
                       !.made[id + 1] = @ + 1]
    IN [n EXCEPT !.shownTotal = ShownTotal(n, {"domNodeCount", "memoryInfo"})]

benchMount ==
    /\ ~app.bench.mounted
    /\ app' = [app EXCEPT !.bench = BenchMount(app.bench)]
    /\ UNCHANGED <<fixed, svcVars, inits, rend, wk, last>>

\* the requestAnimationFrame callback of onMount: renderTime, updateDOMCount()
benchFrame ==
    /\ app.bench.mounted /\ ~app.bench.measured
    /\ app' = [app EXCEPT !.bench.measured = TRUE,
                          !.bench.shownTotal =
                              ShownTotal(app.bench, {"renderTime", "domNodeCount",
                                                     "memoryInfo"})]
    /\ UNCHANGED <<fixed, svcVars, inits, rend, wk, last>>

\* a click on one of the rendered buttons
handleClick ==
    \E id \in 0..(ButtonCount - 1) :
        /\ app.bench.mounted
        /\ app.bench.made[id + 1] < MaxClicks
        /\ app' = [app EXCEPT !.bench = HandleClick(app.bench, id)]
        /\ UNCHANGED <<fixed, svcVars, inits, rend, wk, last>>

ButtonInit ==
    /\ version = "command"
    /\ appVersion = "current"
    /\ isSupported = TRUE
    /\ worker = Null /\ canvas = NoObject /\ renderer = Null /\ scene = Null
    /\ camera = NoObject /\ cube = NoObject /\ animationId = Null
    /\ inits = 0
    /\ rend = [k \in WorkerIds |-> NoRenderer]
    /\ wk = [k \in WorkerIds |-> NoWorker]
    /\ last = [op |-> "new", arg |-> NoData, result |-> TRUE, draws |-> 0, again |-> FALSE,
            frame |-> NoObject]
    /\ app = NewApp

ButtonNext == benchMount \/ benchFrame \/ handleClick

ButtonSpec == ButtonInit /\ [][ButtonNext]_vars

\* ------------------------------------------------------------- the claims
\* live render objects the service holds (its only slot is this.cube)
LiveObjects == IF cube = NoObject THEN 0 ELSE 1

\* identifiers some creation command carries
KnownIds == {cmd.id : cmd \in MeshCommands}

Axes == {"x", "y", "z"}

\* whether snapshot d supplies axis a of vector v
Supplies(d, v, a) ==
    CASE v = "rotation" -> d.hasRotation /\ d.rotation[a] # Undef
      [] v = "position" -> d.hasPosition /\ d.position[a] # Undef
      [] OTHER -> FALSE

\* C2: a renderData snapshot whose meshId was never created is a no-op in the
\* service: the live objects and their transforms are as before
C2_UnknownSnapshotIsNoOp ==
    [][\A i \in WorkerIds :
          (/\ Deliver(i)
           /\ Head(wk[i].outbox).type = "renderData"
           /\ Head(wk[i].outbox).data.meshId \notin KnownIds \cup {""})
          => (cube' = cube /\ LiveObjects' = LiveObjects)]_vars

\* C3: applying a snapshot changes only the axes it supplies: every axis and
\* every vector it does not mention keeps its value
C3_OmittedAxesKept ==
    [][\A i \in WorkerIds :
          (/\ Deliver(i)
           /\ Head(wk[i].outbox).type = "renderData"
           /\ Renders)
          => \A v \in {"rotation", "position", "scale"}, a \in Axes :
                ~Supplies(Head(wk[i].outbox).data, v, a) => cube'[v][a] = cube[v][a]]_vars

\* C4: a createMesh command with a geometry kind of {box, sphere, plane} and a
\* material kind of {basic, standard, lambert}, handled by an initialised
\* service, adds exactly one live object
C4_CreateMeshAddsOne ==
    [][\A i \in WorkerIds :
          (/\ Deliver(i)
           /\ Head(wk[i].outbox).type = "createMesh"
           /\ Head(wk[i].outbox).data.geometry.type \in {"box", "sphere", "plane"}
           /\ Head(wk[i].outbox).data.material.type \in {"basic", "standard", "lambert"}
           /\ scene # Null /\ renderer # Null)
          => LiveObjects' = LiveObjects + 1]_vars

\* C5: cleanup() called twice in a row changes nothing the second time, no
\* worker is terminated twice and no renderer disposed twice; and a 'cleanup'
\* the worker handles right after a 'cleanup' leaves the worker as it was
C5_CleanupTwice ==
    /\ [][(cleanup /\ last.op = "cleanup")
            => UNCHANGED <<svcVars, inits, rend, wk>>]_vars
    /\ [](\A k \in WorkerIds : wk[k].terms <= 1 /\ rend[k].disposed <= 1)
    /\ [][\A i \in WorkerIds :
            (WorkerOnMessage(i) /\ Head(wk[i].inbox).type = "cleanup" /\ wk[i].cleanups > 0)
            => wk'[i] = [wk[i] EXCEPT !.inbox = Tail(@), !.cleanups = 2]]_vars

C5_Witness ==
    /\ last.op = "cleanup" /\ last.again
    /\ \E k \in WorkerIds :
          /\ wk[k].terms = 1 /\ wk[k].cleanups = 2
          /\ rend[k].disposed = 1

\* C6: once cleanup() has run, a message of the terminated worker that is still
\* delivered draws nothing and creates or changes no object
C6_NoOpAfterCleanup ==
    [][\A i \in WorkerIds :
          (Deliver(i) /\ wk[i].status = "terminated")
          => (last'.draws = 0 /\ UNCHANGED <<svcVars, rend>>)]_vars

C6_Witness ==
    /\ last.op = "onmessage" /\ last.arg.type = "renderData"
    /\ \E k \in WorkerIds : wk[k].status = "terminated" /\ rend[k].disposed = 1
    /\ worker = Null /\ scene = Null

\* C7: without Worker on the host, init() reports failure and constructs
\* nothing: no worker, no message, no scene, camera, renderer or object
C7_UnsupportedInitFails ==
    ~isSupported =>
        /\ (last.op = "init" => ~last.result)
        /\ worker = Null /\ scene = Null /\ camera = NoObject
        /\ renderer = Null /\ cube = NoObject /\ canvas = NoObject
        /\ \A k \in WorkerIds : wk[k] = NoWorker /\ rend[k] = NoRenderer

C7_Witness == ~isSupported /\ last.op = "init"

\* C8: an exception inside init() is caught, init() reports failure and the
\* service holds no worker, scene, camera, renderer or object
C8_FailedInitHoldsNothing ==
    (last.op = "init" /\ isSupported /\ last.arg.throws # "none")
    => /\ ~last.result
       /\ worker = Null /\ scene = Null /\ camera = NoObject
       /\ renderer = Null /\ cube = NoObject

\* C9: when init() reports failure, initRenderer starts the in-process
\* rendering path: a scene of its own whose frame loop has drawn
C9_FallbackRenders ==
    app.pc = "fallback" => (app.fb # NoObject /\ app.fb.rot >= 1)

\* C10: resize(width, height) on an initialised service forwards a 'resize'
\* message and sets the camera's aspect and the renderer's size to the viewport
C10_ResizeUpdatesCamera ==
    [][\A v \in Viewports :
          (Resize_(v[1], v[2]) /\ worker # Null /\ Renders)
          => /\ wk'[worker].inbox = Append(wk[worker].inbox, ResizeMsg(v[1], v[2]))
             /\ camera'.aspect = <<OrElse(v[1], DefaultWidth), OrElse(v[2], DefaultHeight)>>
             /\ rend'[renderer].size = camera'.aspect]_vars

\* C11: after cleanup() the service holds nothing: every reference is null, the
\* worker is stopped, and every renderer it made is disposed together with the
\* geometry and the material of the object built next to it.
C11_CleanupReleasesAll ==
    last.op = "cleanup" =>
        /\ worker = Null /\ canvas = NoObject /\ scene = Null
        /\ camera = NoObject /\ cube = NoObject /\ renderer = Null
        /\ \A k \in WorkerIds :
              /\ wk[k].status # "running"
              /\ rend[k].made => /\ rend[k].disposed >= 1
                                 /\ rend[k].geometry = "disposed"
                                 /\ rend[k].material = "disposed"

\* C12: delivering the seeded createMesh command (box, red, origin) to an
\* initialized service issues exactly one draw call.
C12_CreateMeshDraws ==
    [][\A i \in WorkerIds :
          (/\ Deliver(i)
           /\ Head(wk[i].outbox) = CreateMeshMsg(CubeMeshCommand)
           /\ Renders)
          => last'.draws = 1]_vars

\* the messages worker i posts in the step being taken
Emitted(i) == SubSeq(wk'[i].outbox, Len(wk[i].outbox) + 1, Len(wk'[i].outbox))

\* e is: createMesh commands, then one initComplete, then snapshots
InitOrder(e) ==
    \E n \in 1..Len(e) :
        /\ e[n].type = "initComplete"
        /\ \A j \in 1..(n - 1) : e[j].type = "createMesh"
        /\ \A j \in (n + 1)..Len(e) : e[j].type = "renderData"

\* C13: what the worker posts while it handles one 'init' is ordered: the
\* createMesh commands first, then exactly one initComplete, and no renderData
\* before that initComplete.
C13_InitCompleteBeforeSnapshots ==
    [][\A i \in WorkerIds :
          (WorkerOnMessage(i) /\ Head(wk[i].inbox).type = "init")
          => InitOrder(Emitted(i))]_vars

\* one lifecycle: the only frame that can be pending is the one animationId names
\* (a second 'init' without 'cleanup' starts a loop whose id is overwritten)
SingleLoop(w) == w.loops = IF w.animationId # Null THEN 1 ELSE 0

\* C14: in a worker that runs one lifecycle, handling 'cleanup' cancels the
\* pending frame whichever frames ran before it: no loop is left, nothing is
\* posted, the rotation stays, and no frame can run while 'cleanup' is the last
\* thing the worker did.
C14_CleanupStopsLoop ==
    /\ [][\A i \in WorkerIds :
             (/\ WorkerOnMessage(i)
              /\ Head(wk[i].inbox).type = "cleanup"
              /\ SingleLoop(wk[i]))
             => /\ wk'[i].loops = 0
                /\ wk'[i].animationId = Null
                /\ Emitted(i) = <<>>
                /\ wk'[i].rx = wk[i].rx /\ wk'[i].ry = wk[i].ry]_vars
    /\ [](\A i \in WorkerIds :
             (wk[i].cleanups > 0 /\ SingleLoop(wk[i]))
             => ~ENABLED WorkerFrame(i))

\* a simplified worker whose running loop was cancelled by 'cleanup'
C14_Witness ==
    /\ version = "simplified"
    /\ \E i \in WorkerIds :
          /\ wk[i].status = "running" /\ wk[i].inited
          /\ wk[i].cleanups > 0 /\ wk[i].loops = 0 /\ wk[i].rx > 1

GeometryKinds == {"box", "sphere", "plane"}
MaterialKinds == {"basic", "standard", "lambert"}

\* console.error / console.warn calls worker.onmessage makes for message m
Diagnostics(m) == IF m.type = "error" THEN 1 ELSE 0

\* C17: a createMesh command whose geometry or material kind is outside the
\* closed sets is rejected: no object is created or changed and exactly one
\* diagnostic is emitted.
C17_UnknownKindRejected ==
    [][\A i \in WorkerIds :
          (/\ Deliver(i)
           /\ Head(wk[i].outbox).type = "createMesh"
           /\ \/ Head(wk[i].outbox).data.geometry.type \notin GeometryKinds
              \/ Head(wk[i].outbox).data.material.type \notin MaterialKinds)
          => /\ LiveObjects' = LiveObjects
             /\ cube' = cube
             /\ Diagnostics(Head(wk[i].outbox)) = 1]_vars

\* the message types worker.onmessage has a case for
MainKinds == {"initComplete", "renderData", "error"}

\* C18: a message of a type without a case is dropped on both sides: the
\* worker's listener leaves the worker as it was and posts nothing, the
\* service's onmessage leaves the service as it was, posts nothing and draws
\* nothing; neither raises.
C18_UnknownKindDropped ==
    /\ [][\A i \in WorkerIds :
             (WorkerOnMessage(i) /\ Head(wk[i].inbox).type \notin WorkerKinds)
             => /\ wk'[i] = [wk[i] EXCEPT !.inbox = Tail(@), !.cleanups = 0,
                                          !.fault = FALSE, !.dropped = TRUE]
                /\ UNCHANGED <<svcVars, rend, last>>]_vars
    /\ [][\A i \in WorkerIds :
             (Deliver(i) /\ Head(wk[i].outbox).type \notin MainKinds)
             => /\ UNCHANGED <<svcVars, rend>>
                /\ last'.draws = 0
                /\ wk' = [wk EXCEPT ![i].outbox = Tail(@)]]_vars

\* both sides have just dropped a message while a frame loop was running and
\* the service was ready to draw
C18_Witness ==
    /\ last.op = "onmessage" /\ last.arg.type = "bogus" /\ Renders
    /\ \E i \in WorkerIds :
          wk[i].status = "running" /\ wk[i].dropped /\ wk[i].loops > 0

\* C19: while the service holds a worker, every renderData message delivered
\* to it results in exactly one draw call, and the picture drawn shows the mesh
\* as the snapshot left it.
C19_OneDrawAfterMutation ==
    [][\A i \in WorkerIds :
          (Deliver(i) /\ Head(wk[i].outbox).type = "renderData" /\ Ready)
          => /\ last'.draws = 1
             /\ last'.frame = cube'.rotation]_vars

\* a snapshot that rotated the mesh has just been drawn
C19_Witness ==
    /\ Ready /\ last.op = "onmessage" /\ last.arg.type = "renderData"
    /\ last.draws = 1
    /\ last.frame = cube.rotation /\ last.frame # Vec(0, 0, 0)

\* C20: handling 'init' starts the stream of snapshots: it leaves a frame
\* pending, the frame that advances the state, posts a renderData snapshot and
\* asks for the next one; without it nothing is ever posted after 'init',
\* however the worker is scheduled.
C20_InitStartsFrameLoop ==
    [][\A i \in WorkerIds :
          (WorkerOnMessage(i) /\ Head(wk[i].inbox).type = "init")
          => /\ wk'[i].loops > 0
             /\ wk'[i].animationId # Null]_vars

AliveWorkers == {k \in WorkerIds : wk[k].status = "running"}
AliveRenderers == {k \in WorkerIds : rend[k].made /\ rend[k].disposed = 0}

\* C22: whatever init() and cleanup() calls were made on the instance, at most
\* one worker it created is running and at most one renderer it created is not
\* disposed, and they are the ones it holds a reference to.
C22_OneWorkerOneRenderer ==
    /\ Cardinality(AliveWorkers) <= 1
    /\ Cardinality(AliveRenderers) <= 1
    /\ AliveWorkers \subseteq {worker}
    /\ AliveRenderers \subseteq {renderer}

\* C23: once the App component has been destroyed after it initialized the
\* worker renderer, the teardown has run: the service's cleanup() was called (no
\* worker is held or running), the resize listener is removed and the canvas is
\* detached.
C23_DestroyTearsDown ==
    (~app.alive /\ app.pc = "worker")
    => /\ worker = Null /\ AliveWorkers = {}
       /\ ~app.listener
       /\ ~app.attached

\* C24: after any clicks, each button's clickCount is the number of clicks made
\* on it and clicked is true exactly when that number is odd, and the total
\* shown is the number of clicks made.
C24_ClickCounts ==
    app.bench.mounted
    => /\ \A i \in 1..ButtonCount :
             /\ app.bench.buttons[i].clickCount = app.bench.made[i]
             /\ app.bench.buttons[i].clicked = (app.bench.made[i] % 2 = 1)
       /\ app.bench.shownTotal = Sum(app.bench.made)
====
